---- MODULE Spec2Model ----
(***************************************************************************)
(* Heading-outline extraction of src/Main.py: the title chain, the         *)
(* heading-level thresholds, the repeated header/footer detector, the      *)
(* validity filter, the outline assembly and the batch driver.             *)
(*                                                                         *)
(* A text is a sequence of Unicode code points (a Python str), so that the *)
(* string operations of the code (strip, split, lower, startswith,         *)
(* endswith, replace, slicing, the range tests of has_cjk) are computed,   *)
(* not assumed.  Font sizes and coordinates are integers (points); the     *)
(* products by 0.1, 0.9 and 0.8 are compared after scaling by 10.          *)
(***************************************************************************)
EXTENDS Integers, Sequences, FiniteSets, TLC

(***************************************************************************)
(* Python str primitives used by the code.                                 *)
(***************************************************************************)

\* str.isspace of one character: what strip() and split() treat as blank.
IsSpace(c) ==
  c \in {9, 10, 11, 12, 13, 28, 29, 30, 31, 32, 133, 160, 12288}

\* str.isprintable of one character (controls, separators other than the
\* ASCII space, soft hyphen and format characters are not printable).
IsPrintableChar(c) ==
  /\ c >= 32
  /\ c \notin 127..160
  /\ c \notin {173, 12288}
  /\ c \notin 8192..8207
  /\ c \notin 8232..8239

\* \d of the re module on a str pattern restricted to the ASCII digits.
IsDigit(c) ==
  c \in 48..57

RECURSIVE lstrip(_)
lstrip(s) ==
  IF s = <<>> THEN s
  ELSE IF IsSpace(Head(s)) THEN lstrip(Tail(s)) ELSE s

RECURSIVE rstrip(_)
rstrip(s) ==
  IF s = <<>> THEN s
  ELSE IF IsSpace(s[Len(s)]) THEN rstrip(SubSeq(s, 1, Len(s) - 1)) ELSE s

\* str.strip()
strip(s) ==
  rstrip(lstrip(s))

RECURSIVE split_from(_, _, _)
split_from(s, cur, acc) ==
  IF s = <<>>
  THEN (IF cur = <<>> THEN acc ELSE Append(acc, cur))
  ELSE IF IsSpace(Head(s))
       THEN split_from(Tail(s), <<>>, IF cur = <<>> THEN acc ELSE Append(acc, cur))
       ELSE split_from(Tail(s), Append(cur, Head(s)), acc)

\* str.split() with no argument: the maximal runs of non-blank characters.
split(s) ==
  split_from(s, <<>>, <<>>)

\* str.lower() on the basic Latin letters.
lower(s) ==
  [i \in 1..Len(s) |-> IF s[i] \in 65..90 THEN s[i] + 32 ELSE s[i]]

\* str.isprintable()
isprintable(s) ==
  \A i \in 1..Len(s) : IsPrintableChar(s[i])

\* str.startswith(p)
startswith(s, p) ==
  /\ Len(s) >= Len(p)
  /\ SubSeq(s, 1, Len(p)) = p

\* str.endswith(p)
endswith(s, p) ==
  /\ Len(s) >= Len(p)
  /\ SubSeq(s, Len(s) - Len(p) + 1, Len(s)) = p

\* s[:-k] for k > 0
drop_last(s, k) ==
  SubSeq(s, 1, Len(s) - k)

RECURSIVE replace_all(_, _)
\* str.replace(p, ''): every non-overlapping occurrence of p, left to right.
replace_all(s, p) ==
  IF Len(s) < Len(p) THEN s
  ELSE IF SubSeq(s, 1, Len(p)) = p
       THEN replace_all(SubSeq(s, Len(p) + 1, Len(s)), p)
       ELSE <<Head(s)>> \o replace_all(Tail(s), p)

\* ''.join(parts)
RECURSIVE join(_)
join(parts) ==
  IF parts = <<>> THEN <<>> ELSE Head(parts) \o join(Tail(parts))

(***************************************************************************)
(* has_cjk and is_valid_heading                                            *)
(***************************************************************************)

has_cjk(text) ==
  \E i \in 1..Len(text) :
     \/ (19968 <= text[i] /\ text[i] <= 40959)    \* u4e00 .. u9fff
     \/ (12352 <= text[i] /\ text[i] <= 12543)    \* u3040 .. u30ff
     \/ (44032 <= text[i] /\ text[i] <= 55215)    \* uac00 .. ud7af

form_words ==
  {
    (* name *) <<110, 97, 109, 101>>,
    (* age *) <<97, 103, 101>>,
    (* date *) <<100, 97, 116, 101>>,
    (* rs *) <<114, 115>>,
    (* s.no *) <<115, 46, 110, 111>>,
    (* sno *) <<115, 110, 111>>,
    (* signature *) <<115, 105, 103, 110, 97, 116, 117, 114, 101>>,
    (* designation *) <<100, 101, 115, 105, 103, 110, 97, 116, 105, 111, 110>>,
    (* service *) <<115, 101, 114, 118, 105, 99, 101>>,
    (* pay *) <<112, 97, 121>>,
    (* si *) <<115, 105>>,
    (* npa *) <<110, 112, 97>>,
    (* permanent *) <<112, 101, 114, 109, 97, 110, 101, 110, 116>>,
    (* temporary *) <<116, 101, 109, 112, 111, 114, 97, 114, 121>>,
    (* home *) <<104, 111, 109, 101>>,
    (* town *) <<116, 111, 119, 110>>,
    (* recorded *) <<114, 101, 99, 111, 114, 100, 101, 100>>,
    (* book *) <<98, 111, 111, 107>>,
    (* wife *) <<119, 105, 102, 101>>,
    (* husband *) <<104, 117, 115, 98, 97, 110, 100>>,
    (* employed *) <<101, 109, 112, 108, 111, 121, 101, 100>>,
    (* entitled *) <<101, 110, 116, 105, 116, 108, 101, 100>>,
    (* ltc *) <<108, 116, 99>>,
    (* concession *) <<99, 111, 110, 99, 101, 115, 115, 105, 111, 110>>,
    (* availed *) <<97, 118, 97, 105, 108, 101, 100>>,
    (* visiting *) <<118, 105, 115, 105, 116, 105, 110, 103>>,
    (* block *) <<98, 108, 111, 99, 107>>,
    (* india *) <<105, 110, 100, 105, 97>>,
    (* place *) <<112, 108, 97, 99, 101>>,
    (* visited *) <<118, 105, 115, 105, 116, 101, 100>>,
    (* single *) <<115, 105, 110, 103, 108, 101>>,
    (* rail *) <<114, 97, 105, 108>>,
    (* fare *) <<102, 97, 114, 101>>,
    (* bus *) <<98, 117, 115>>,
    (* from *) <<102, 114, 111, 109>>,
    (* headquarters *) <<104, 101, 97, 100, 113, 117, 97, 114, 116, 101, 114, 115>>,
    (* shortest *) <<115, 104, 111, 114, 116, 101, 115, 116>>,
    (* route *) <<114, 111, 117, 116, 101>>,
    (* persons *) <<112, 101, 114, 115, 111, 110, 115>>,
    (* respect *) <<114, 101, 115, 112, 101, 99, 116>>,
    (* whom *) <<119, 104, 111, 109>>,
    (* proposed *) <<112, 114, 111, 112, 111, 115, 101, 100>>,
    (* relationship *) <<114, 101, 108, 97, 116, 105, 111, 110, 115, 104, 105, 112>>,
    (* amount *) <<97, 109, 111, 117, 110, 116>>,
    (* advance *) <<97, 100, 118, 97, 110, 99, 101>>,
    (* required *) <<114, 101, 113, 117, 105, 114, 101, 100>>,
    (* declare *) <<100, 101, 99, 108, 97, 114, 101>>,
    (* particulars *) <<112, 97, 114, 116, 105, 99, 117, 108, 97, 114, 115>>,
    (* furnished *) <<102, 117, 114, 110, 105, 115, 104, 101, 100>>,
    (* true *) <<116, 114, 117, 101>>,
    (* correct *) <<99, 111, 114, 114, 101, 99, 116>>,
    (* knowledge *) <<107, 110, 111, 119, 108, 101, 100, 103, 101>>,
    (* undertake *) <<117, 110, 100, 101, 114, 116, 97, 107, 101>>,
    (* produce *) <<112, 114, 111, 100, 117, 99, 101>>,
    (* tickets *) <<116, 105, 99, 107, 101, 116, 115>>,
    (* outward *) <<111, 117, 116, 119, 97, 114, 100>>,
    (* journey *) <<106, 111, 117, 114, 110, 101, 121>>,
    (* receipt *) <<114, 101, 99, 101, 105, 112, 116>>,
    (* refund *) <<114, 101, 102, 117, 110, 100>>,
    (* entire *) <<101, 110, 116, 105, 114, 101>>,
    (* lump *) <<108, 117, 109, 112>>,
    (* sum *) <<115, 117, 109>>
  }

\* re.match(r'^[\d\.]+$', text) on a stripped text
matches_digits_dots(text) ==
  /\ Len(text) >= 1
  /\ \A i \in 1..Len(text) : IsDigit(text[i]) \/ text[i] = 46

\* sum(1 for word in words if word in form_words)
form_count(words) ==
  Cardinality({i \in 1..Len(words) : words[i] \in form_words})

is_valid_heading(raw) ==
  LET text  == strip(raw)
      words == split(lower(text))
  IN  IF Len(text) < 3 THEN FALSE
      ELSE IF matches_digits_dots(text) \/ (Len(split(text)) = 1 /\ Len(text) < 4)
      THEN FALSE
      ELSE IF 10 * form_count(words) > 8 * Len(words) THEN FALSE
      ELSE IF text[Len(text)] = 58 \/ Len(split(text)) > 10 THEN FALSE
      ELSE TRUE

(***************************************************************************)
(* extract_title                                                           *)
(*                                                                         *)
(* A document is [metadata, pages]; metadata is [has_title, title] (the    *)
(* key may be absent: doc.metadata.get('title') is then None); a page is   *)
(* [height, lines], lines being the lines of its text blocks in order      *)
(* (blocks without 'lines' are skipped by the code); a line is a sequence  *)
(* of spans [text, size, flags, y0, y1] (y0 = bbox[1], y1 = bbox[3]).      *)
(***************************************************************************)

MAX_PAGES == 50

MsWordPrefix ==
  <<77, 105, 99, 114, 111, 115, 111, 102, 116, 32, 87, 111, 114, 100, 32, 45, 32>>

DotDoc ==
  <<46, 100, 111, 99>>

DotDocx ==
  <<46, 100, 111, 99, 120>>

UntitledPDF ==
  <<85, 110, 116, 105, 116, 108, 101, 100, 32, 80, 68, 70>>

\* span['flags'] & 2
flag_bit2(flags) ==
  (flags \div 2) % 2 = 1

\* has_meta_title without the test of meta.strip(): "if meta:"
has_meta_title_unstripped(doc) ==
  /\ doc.metadata.has_title
  /\ doc.metadata.title # <<>>

\* meta and meta.strip()
has_meta_title(doc) ==
  /\ doc.metadata.has_title
  /\ doc.metadata.title # <<>>
  /\ strip(doc.metadata.title) # <<>>

\* the suffix clean-up of the metadata title
strip_doc_suffix(title) ==
  IF endswith(title, DotDoc) \/ endswith(title, DotDocx)
  THEN (IF endswith(title, DotDocx) THEN drop_last(title, 4) ELSE drop_last(title, 3))
  ELSE title

\* the metadata branch of extract_title
clean_meta_title(meta) ==
  LET title == strip(meta)
      unprefixed == IF startswith(title, MsWordPrefix)
                    THEN replace_all(title, MsWordPrefix)
                    ELSE title
  IN  strip_doc_suffix(unprefixed)

\* the spans of a page in reading order
page_spans(page) ==
  join(page.lines)

\* span_candidates with t = span['text'], the strip() forgotten
RECURSIVE span_candidates_unstripped(_, _)
span_candidates_unstripped(spans, bold_only) ==
  IF spans = <<>> THEN <<>>
  ELSE LET span == Head(spans)
           t    == span.text
           keep == IF bold_only
                   THEN t # <<>> /\ span.size >= 15 /\ flag_bit2(span.flags)
                   ELSE t # <<>>
       IN  (IF keep THEN <<[size |-> span.size, text |-> t]>> ELSE <<>>)
           \o span_candidates_unstripped(Tail(spans), bold_only)

\* [(span['size'], t) ...] of the spans the predicate keeps
RECURSIVE span_candidates(_, _)
span_candidates(spans, bold_only) ==
  IF spans = <<>> THEN <<>>
  ELSE LET span == Head(spans)
           t    == strip(span.text)
           keep == IF bold_only
                   THEN t # <<>> /\ span.size >= 15 /\ flag_bit2(span.flags)
                   ELSE t # <<>>
       IN  (IF keep THEN <<[size |-> span.size, text |-> t]>> ELSE <<>>)
           \o span_candidates(Tail(spans), bold_only)

\* max(candidates, key=lambda x: x[0])[1]: the first candidate of largest size
max_by_size(candidates) ==
  LET i == CHOOSE k \in 1..Len(candidates) :
             /\ \A j \in 1..Len(candidates) : candidates[j].size <= candidates[k].size
             /\ \A j \in 1..(k - 1) : candidates[j].size < candidates[k].size
  IN  candidates[i].text

\* extract_title(doc): [raised |-> TRUE] stands for the IndexError of doc[0]
extract_title(doc) ==
  IF has_meta_title(doc)
  THEN [raised |-> FALSE, title |-> clean_meta_title(doc.metadata.title)]
  ELSE IF Len(doc.pages) = 0
  THEN [raised |-> TRUE, title |-> <<>>]
  ELSE LET spans      == page_spans(doc.pages[1])
           candidates == span_candidates(spans, TRUE)
           all_texts  == span_candidates(spans, FALSE)
       IN  IF candidates # <<>>
           THEN [raised |-> FALSE, title |-> max_by_size(candidates)]
           ELSE IF all_texts # <<>>
           THEN [raised |-> FALSE, title |-> max_by_size(all_texts)]
           ELSE [raised |-> FALSE, title |-> UntitledPDF]

(***************************************************************************)
(* get_heading_levels                                                      *)
(***************************************************************************)

\* the number of occurrences of x in seq
count_of(seq, x) ==
  Cardinality({i \in 1..Len(seq) : seq[i] = x})

\* the keys of Counter(seq), in insertion (first occurrence) order
RECURSIVE counter_keys(_, _)
counter_keys(seq, seen) ==
  IF seq = <<>> THEN <<>>
  ELSE IF Head(seq) \in seen
       THEN counter_keys(Tail(seq), seen)
       ELSE <<Head(seq)>> \o counter_keys(Tail(seq), seen \cup {Head(seq)})

\* insert x before the first key that occurs strictly less often
RECURSIVE insert_by_count(_, _, _)
insert_by_count(sorted, x, font_sizes) ==
  IF sorted = <<>> THEN <<x>>
  ELSE IF count_of(font_sizes, x) > count_of(font_sizes, Head(sorted))
       THEN <<x>> \o sorted
       ELSE <<Head(sorted)>> \o insert_by_count(Tail(sorted), x, font_sizes)

\* sorted(items, key=count, reverse=True): stable, ties keep insertion order
RECURSIVE sort_by_count(_, _)
sort_by_count(keys, font_sizes) ==
  IF keys = <<>> THEN <<>>
  ELSE insert_by_count(sort_by_count(SubSeq(keys, 1, Len(keys) - 1), font_sizes),
                       keys[Len(keys)], font_sizes)

\* [s for s, _ in counts.most_common()]
most_common(font_sizes) ==
  sort_by_count(counter_keys(font_sizes, {}), font_sizes)

\* insert x before the first strictly smaller element
RECURSIVE insert_desc(_, _)
insert_desc(sorted, x) ==
  IF sorted = <<>> THEN <<x>>
  ELSE IF x > Head(sorted)
       THEN <<x>> \o sorted
       ELSE <<Head(sorted)>> \o insert_desc(Tail(sorted), x)

\* sorted(common, reverse=True)
RECURSIVE sorted_reverse(_)
sorted_reverse(common) ==
  IF common = <<>> THEN <<>>
  ELSE insert_desc(sorted_reverse(SubSeq(common, 1, Len(common) - 1)),
                   common[Len(common)])

get_heading_levels(font_sizes) ==
  SubSeq(sorted_reverse(most_common(font_sizes)) \o <<0, 0, 0>>, 1, 3)

(***************************************************************************)
(* find_repeated_elements                                                  *)
(***************************************************************************)

\* y0 < page_height * 0.1 or y1 > page_height * 0.9
in_margin_zone(feat, page_height) ==
  \/ 10 * feat.y0 < page_height
  \/ 10 * feat.y1 > 9 * page_height

\* counter[txt] after the loop
margin_count(lines, page_height, txt) ==
  Cardinality({i \in 1..Len(lines) :
                 lines[i].text = txt /\ in_margin_zone(lines[i], page_height)})

find_repeated_elements(lines, num_pages, page_height) ==
  {t \in {lines[i].text : i \in 1..Len(lines)} :
     /\ margin_count(lines, page_height, t) >= 1
     /\ margin_count(lines, page_height, t) > num_pages \div 2}

(***************************************************************************)
(* extract_outline                                                         *)
(***************************************************************************)

Min(a, b) ==
  IF a <= b THEN a ELSE b

\* max/min of one field over the spans of a line
max_size(spans) ==
  CHOOSE v \in {spans[i].size : i \in 1..Len(spans)} :
    \A i \in 1..Len(spans) : spans[i].size <= v

min_y0(spans) ==
  CHOOSE v \in {spans[i].y0 : i \in 1..Len(spans)} :
    \A i \in 1..Len(spans) : v <= spans[i].y0

max_y1(spans) ==
  CHOOSE v \in {spans[i].y1 : i \in 1..Len(spans)} :
    \A i \in 1..Len(spans) : spans[i].y1 <= v

\* ''.join([span['text'] for span in line['spans']]).strip()
line_text(spans) ==
  strip(join([i \in 1..Len(spans) |-> spans[i].text]))

\* not (not txt or not txt.isprintable() or len(txt.split()) > 20)
line_is_collected(txt) ==
  /\ txt # <<>>
  /\ isprintable(txt)
  /\ Len(split(txt)) <= 20

\* the record appended to lines for one line of page number page_no
line_feature(spans, page_no) ==
  [text |-> line_text(spans),
   size |-> max_size(spans),
   bold |-> \E i \in 1..Len(spans) : flag_bit2(spans[i].flags),
   y0   |-> min_y0(spans),
   y1   |-> max_y1(spans),
   page |-> page_no]

\* the features of the lines of one page, in order
RECURSIVE collect_page(_, _)
collect_page(page_lines, page_no) ==
  IF page_lines = <<>> THEN <<>>
  ELSE (IF line_is_collected(line_text(Head(page_lines)))
        THEN <<line_feature(Head(page_lines), page_no)>>
        ELSE <<>>)
       \o collect_page(Tail(page_lines), page_no)

\* the collection loop over pages i = 0 .. num_pages - 1 (page number i + 1)
RECURSIVE collect_lines(_, _)
collect_lines(doc, num_pages) ==
  IF num_pages = 0 THEN <<>>
  ELSE collect_lines(doc, num_pages - 1)
       \o collect_page(doc.pages[num_pages].lines, num_pages)

\* heading_level with the H1 branch testing the size alone
heading_level_size_only(feat, levels) ==
  IF feat.size = levels[1] THEN "H1"
  ELSE IF feat.size = levels[2] THEN "H2"
  ELSE IF feat.size = levels[3] THEN "H3"
  ELSE "none"

\* the if / elif / elif chain: the level of a line, "none" when no branch fires
heading_level(feat, levels) ==
  IF feat.size = levels[1] /\ (feat.bold \/ ~has_cjk(feat.text)) THEN "H1"
  ELSE IF feat.size = levels[2] THEN "H2"
  ELSE IF feat.size = levels[3] THEN "H3"
  ELSE "none"

\* line_is_skipped without the test of the repeated set
line_is_skipped_validity_only(feat, repeated) ==
  ~is_valid_heading(feat.text)

\* txt in repeated or not is_valid_heading(txt)
line_is_skipped(feat, repeated) ==
  feat.text \in repeated \/ ~is_valid_heading(feat.text)

\* the heading loop
RECURSIVE build_outline(_, _, _)
build_outline(lines, repeated, levels) ==
  IF lines = <<>> THEN <<>>
  ELSE LET feat  == Head(lines)
           level == heading_level(feat, levels)
       IN  (IF ~line_is_skipped(feat, repeated) /\ level # "none"
            THEN <<[level |-> level, text |-> feat.text, page |-> feat.page]>>
            ELSE <<>>)
           \o build_outline(Tail(lines), repeated, levels)

\* extract_outline with its locals; status "error" is the exception leaving it
extract_outline(doc) ==
  LET num_pages   == Min(Len(doc.pages), MAX_PAGES)
      page_height == IF num_pages > 0 THEN doc.pages[1].height ELSE 0
      lines       == collect_lines(doc, num_pages)
      font_sizes  == [i \in 1..Len(lines) |-> lines[i].size]
      repeated    == find_repeated_elements(lines, num_pages, page_height)
      levels      == get_heading_levels(font_sizes)
      outline     == build_outline(lines, repeated, levels)
      t           == extract_title(doc)
  IN  [status      |-> IF t.raised THEN "error" ELSE "ok",
       title       |-> t.title,
       outline     |-> IF t.raised THEN <<>> ELSE outline,
       lines       |-> lines,
       num_pages   |-> num_pages,
       page_height |-> page_height,
       repeated    |-> repeated,
       levels      |-> levels]

(***************************************************************************)
(* Documents: the inputs of the model.                                     *)
(***************************************************************************)

\* the largest number of pages of a document
MaxPages == 2

\* the largest number of lines of a document, over all its pages
MaxDocLines == 4

\* the lines a page is made of (page height 800: y below 80 or above 720 is
\* a margin zone)
LineLibrary ==
  << \* "Our " 20pt with flag bit 2 + "Plan" 12pt: "Our Plan" in the top margin
     << [text |-> <<79, 117, 114, 32>>,
         size |-> 20, flags |-> 2, y0 |-> 40, y1 |-> 60],
        [text |-> <<80, 108, 97, 110>>,
         size |-> 12, flags |-> 0, y0 |-> 44, y1 |-> 58] >>,
     \* four CJK ideographs, 14pt, flag clear, mid page
     << [text |-> <<27010, 35201, 35500, 26126>>,
         size |-> 14, flags |-> 0, y0 |-> 300, y1 |-> 314] >>,
     \* "3.1." 16pt, flag bits 2 and 4, mid page
     << [text |-> <<51, 46, 49, 46>>,
         size |-> 16, flags |-> 6, y0 |-> 400, y1 |-> 416] >>,
     \* "Body text" 10pt, bottom margin
     << [text |-> <<66, 111, 100, 121, 32, 116, 101, 120, 116>>,
         size |-> 10, flags |-> 0, y0 |-> 750, y1 |-> 760] >>,
     \* two blanks, 30pt: a span without text
     << [text |-> <<32, 32>>,
         size |-> 30, flags |-> 0, y0 |-> 600, y1 |-> 630] >> >>

\* metadata.get('title'): absent, blank, or a title
MetaTitles ==
  { [has_title |-> FALSE, title |-> <<>>],
    [has_title |-> TRUE, title |-> <<32, 32>>],
    \* "Microsoft Word - Budget.docx"
    [has_title |-> TRUE,
     title |-> <<77, 105, 99, 114, 111, 115, 111, 102, 116, 32, 87, 111, 114, 100,
                 32, 45, 32, 66, 117, 100, 103, 101, 116, 46, 100, 111, 99, 120>>],
    \* "Budget.doc"
    [has_title |-> TRUE, title |-> <<66, 117, 100, 103, 101, 116, 46, 100, 111, 99>>] }

RECURSIVE sum_upto(_, _)
sum_upto(counts, n) ==
  IF n = 0 THEN 0 ELSE counts[n] + sum_upto(counts, n - 1)

\* the pages holding counts[i] lines each, the lines being flat in order
make_pages(counts, flat) ==
  [i \in 1..Len(counts) |->
     [height |-> 800,
      lines  |-> [j \in 1..counts[i] |-> LineLibrary[flat[sum_upto(counts, i - 1) + j]]]]]

\* a document without pages and without metadata title
NoDoc ==
  [metadata |-> [has_title |-> FALSE, title |-> <<>>], pages |-> <<>>]

(***************************************************************************)
(* process_pdfs                                                            *)
(***************************************************************************)

\* '/app/output'
OUTPUT_DIR ==
  <<47, 97, 112, 112, 47, 111, 117, 116, 112, 117, 116>>

DotPdf ==
  <<46, 112, 100, 102>>

DotJson ==
  <<46, 106, 115, 111, 110>>

\* os.path.join(directory, name)
path_join(directory, name) ==
  directory \o <<47>> \o name

\* filename.lower().endswith('.pdf')
is_pdf_name(filename) ==
  endswith(lower(filename), DotPdf)

\* os.path.join(OUTPUT_DIR, filename[:-4] + '.json')
output_path_of(filename) ==
  path_join(OUTPUT_DIR, drop_last(filename, 4) \o DotJson)

\* the largest number of entries of the input directory
MaxFiles == 3

\* the names os.listdir may return: "a.pdf", "a.PDF", "b.pdf", "a.txt"
FileNames ==
  { <<97, 46, 112, 100, 102>>,
    <<97, 46, 80, 68, 70>>,
    <<98, 46, 112, 100, 102>>,
    <<97, 46, 116, 120, 116>> }

\* what an input file may hold: a one-page document titled "Budget.doc" in
\* its metadata, a one-page document without metadata title, and a document
\* without pages nor title (extract_outline raises on it)
BatchDocs ==
  { [metadata |-> [has_title |-> TRUE,
                   title |-> <<66, 117, 100, 103, 101, 116, 46, 100, 111, 99>>],
     pages |-> make_pages(<<1>>, <<4>>)],
    [metadata |-> [has_title |-> FALSE, title |-> <<>>],
     pages |-> make_pages(<<2>>, <<1, 2>>)],
    NoDoc }

\* the dictionary json.dump writes
outline_data(r) ==
  [title |-> r.title, outline |-> r.outline]

\* open(path, 'w') and json.dump: the file at path now holds data
write_file(dir, path, data) ==
  [q \in (DOMAIN dir) \cup {path} |-> IF q = path THEN data ELSE dir[q]]

(***************************************************************************)
(* State                                                                   *)
(*   doc, run              the document extract_outline is called on, and  *)
(*                         the locals and result of the call               *)
(*   font_sizes, levels    the argument and result of get_heading_levels   *)
(*   input_dir             the files of INPUT_DIR: name -> document        *)
(*   pending               the names the for loop has still to visit       *)
(*   output_dir            the files of OUTPUT_DIR: path -> written data   *)
(*   log                   the lines printed by process_pdfs               *)
(*   pc                    the position of the running function            *)
(***************************************************************************)
VARIABLES doc, run, font_sizes, levels, input_dir, pending, output_dir, log, pc

vars == <<doc, run, font_sizes, levels, input_dir, pending, output_dir, log, pc>>

NoRun ==
  [status |-> "none", title |-> <<>>, outline |-> <<>>, lines |-> <<>>,
   num_pages |-> 0, page_height |-> 0, repeated |-> {}, levels |-> <<0, 0, 0>>]

NoLevelsCall ==
  /\ font_sizes = <<>>
  /\ levels = <<>>

NoBatch ==
  /\ input_dir = <<>>
  /\ pending = {}
  /\ output_dir = <<>>
  /\ log = <<>>

(***************************************************************************)
(* Spec: extract_outline on every document of the bounds.                  *)
(***************************************************************************)
Init ==
  /\ pc = "start"
  /\ run = NoRun
  /\ NoLevelsCall
  /\ NoBatch
  /\ \E n \in 0..MaxPages :
       \E counts \in [1..n -> 0..MaxDocLines] :
         /\ sum_upto(counts, n) <= MaxDocLines
         /\ \E flat \in [1..sum_upto(counts, n) -> 1..Len(LineLibrary)] :
              \E meta \in MetaTitles :
                doc = [metadata |-> meta, pages |-> make_pages(counts, flat)]

\* one call of extract_outline on the opened document
ExtractOutline ==
  /\ pc = "start"
  /\ run' = extract_outline(doc)
  /\ pc' = "done"
  /\ UNCHANGED <<doc, font_sizes, levels, input_dir, pending, output_dir, log>>

Next ==
  ExtractOutline

Spec ==
  Init /\ [][Next]_vars

(***************************************************************************)
(* SpecLevels: get_heading_levels on every list of font sizes of the       *)
(* bounds.                                                                 *)
(***************************************************************************)

\* the largest number of font sizes passed to get_heading_levels
MaxSizes == 5

FontSizes ==
  {10, 12, 14, 18}

InitLevels ==
  /\ pc = "start"
  /\ doc = NoDoc
  /\ run = NoRun
  /\ NoBatch
  /\ levels = <<>>
  /\ \E n \in 0..MaxSizes : font_sizes \in [1..n -> FontSizes]

GetHeadingLevels ==
  /\ pc = "start"
  /\ levels' = get_heading_levels(font_sizes)
  /\ pc' = "done"
  /\ UNCHANGED <<doc, run, font_sizes, input_dir, pending, output_dir, log>>

NextLevels ==
  GetHeadingLevels

SpecLevels ==
  InitLevels /\ [][NextLevels]_vars

(***************************************************************************)
(* SpecBatch: process_pdfs on every input directory of the bounds.         *)
(* os.listdir returns the names in an arbitrary order.                     *)
(***************************************************************************)
InitBatch ==
  /\ pc = "start"
  /\ doc = NoDoc
  /\ run = NoRun
  /\ NoLevelsCall
  /\ pending = {}
  /\ output_dir = <<>>
  /\ log = <<>>
  /\ \E names \in SUBSET FileNames :
       /\ Cardinality(names) <= MaxFiles
       /\ input_dir \in [names -> BatchDocs]

\* os.makedirs(OUTPUT_DIR, exist_ok=True) and os.listdir(INPUT_DIR)
ListInputDir ==
  /\ pc = "start"
  /\ pending' = DOMAIN input_dir
  /\ pc' = "loop"
  /\ UNCHANGED <<doc, run, font_sizes, levels, input_dir, output_dir, log>>

\* one iteration of the for loop, on the next name of the listing
ProcessFile ==
  /\ pc = "loop"
  /\ \E filename \in pending :
       /\ pending' = pending \ {filename}
       /\ IF ~is_pdf_name(filename)
          THEN UNCHANGED <<output_dir, log>>
          ELSE LET r == extract_outline(input_dir[filename])
                   output_path == output_path_of(filename)
               IN  IF r.status = "ok"
                   THEN /\ output_dir' = write_file(output_dir, output_path, outline_data(r))
                        /\ log' = Append(log, [event |-> "Processed",
                                               filename |-> filename,
                                               output_path |-> output_path])
                   ELSE /\ output_dir' = output_dir
                        /\ log' = Append(log, [event |-> "Error",
                                               filename |-> filename,
                                               output_path |-> <<>>])
  /\ UNCHANGED <<doc, run, font_sizes, levels, input_dir, pc>>

\* the listing is exhausted: process_pdfs returns
FinishBatch ==
  /\ pc = "loop"
  /\ pending = {}
  /\ pc' = "done"
  /\ UNCHANGED <<doc, run, font_sizes, levels, input_dir, pending, output_dir, log>>

NextBatch ==
  \/ ListInputDir
  \/ ProcessFile
  \/ FinishBatch

SpecBatch ==
  InitBatch /\ [][NextBatch]_vars

(***************************************************************************)
(* Properties                                                              *)
(***************************************************************************)

\* C1: when the metadata carries a non-empty title, extract_title returns it
\* trimmed, without a leading "Microsoft Word - " and without a trailing
\* ".doc" or ".docx" (the whole suffix, dot included): "Microsoft Word - " + S
\* + ".docx" yields S.
C1_MetaTitleFullyCleaned ==
  (pc = "done" /\ has_meta_title(doc)) =>
     LET trimmed    == strip(doc.metadata.title)
         unprefixed == IF startswith(trimmed, MsWordPrefix)
                       THEN SubSeq(trimmed, Len(MsWordPrefix) + 1, Len(trimmed))
                       ELSE trimmed
         stem       == IF endswith(unprefixed, DotDocx) THEN drop_last(unprefixed, 5)
                       ELSE IF endswith(unprefixed, DotDoc) THEN drop_last(unprefixed, 4)
                       ELSE unprefixed
     IN  run.status = "ok" /\ run.title = stem

\* C2: whenever extract_outline returns a result, its title is a non-empty
\* string, whichever branch of the title chain produced it.
C2_TitleNonEmpty ==
  (pc = "done" /\ run.status = "ok") => run.title # <<>>

\* a returned result whose metadata title was present but blank, so that the
\* title came from further down the chain
C2_Witness ==
  /\ pc = "done"
  /\ run.status = "ok"
  /\ doc.metadata.has_title
  /\ strip(doc.metadata.title) = <<>>
  /\ run.title # <<>>

\* C3: every outline entry has a text that is_valid_heading accepts and that
\* is not in the repeated set of the document.
C3_EntriesValidAndNotRepeated ==
  pc = "done" =>
     \A i \in 1..Len(run.outline) :
        /\ is_valid_heading(run.outline[i].text)
        /\ run.outline[i].text \notin run.repeated

\* a collected line in the repeated set that is valid and has the H1 size is
\* missing from a non-empty outline
C3_Witness ==
  /\ pc = "done"
  /\ run.status = "ok"
  /\ Len(run.outline) >= 1
  /\ \E i \in 1..Len(run.lines) :
        /\ run.lines[i].text \in run.repeated
        /\ is_valid_heading(run.lines[i].text)
        /\ run.lines[i].size = run.levels[1]
        /\ \A k \in 1..Len(run.outline) : run.outline[k].text # run.lines[i].text

\* no line was collected and no span of the first page has text
NoExtractableText ==
  /\ Len(doc.pages) >= 1
  /\ run.lines = <<>>
  /\ \A l \in 1..Len(doc.pages[1].lines) :
        \A k \in 1..Len(doc.pages[1].lines[l]) :
           strip(doc.pages[1].lines[l][k].text) = <<>>

\* C4 as stated: a document without extractable text yields an empty outline
\* and the title "Untitled PDF".
C4_NoTextGivesUntitled ==
  (pc = "done" /\ NoExtractableText) =>
     /\ run.status = "ok"
     /\ run.outline = <<>>
     /\ run.title = UntitledPDF

\* C4 amended: a document of at least one page without extractable text and
\* whose metadata carries no non-blank title yields an empty outline and the
\* title "Untitled PDF".
C4_NoTextNoMetaGivesUntitled ==
  (/\ pc = "done"
   /\ NoExtractableText
   /\ ~(doc.metadata.has_title /\ strip(doc.metadata.title) # <<>>)) =>
     /\ run.status = "ok"
     /\ run.outline = <<>>
     /\ run.title = UntitledPDF

\* a first page that holds a span, of blanks only, and no metadata title
C4_Witness ==
  /\ pc = "done"
  /\ NoExtractableText
  /\ Len(doc.pages[1].lines) >= 1
  /\ ~doc.metadata.has_title
  /\ run.title = UntitledPDF

\* C5: process_pdfs leaves one artifact per input whose name ends in ".pdf"
\* in any case, at the path named after the stem, holding the result of that
\* input, and no two inputs were written to the same path (inputs on which
\* extract_outline raises are logged and leave no artifact).
C5_OneArtifactPerPdfNoCollision ==
  /\ \A i, j \in 1..Len(log) :
        (/\ i # j
         /\ log[i].event = "Processed"
         /\ log[j].event = "Processed") => log[i].output_path # log[j].output_path
  /\ pc = "done" =>
        \A f \in DOMAIN input_dir :
           (is_pdf_name(f) /\ extract_outline(input_dir[f]).status = "ok") =>
              /\ output_path_of(f) \in DOMAIN output_dir
              /\ output_dir[output_path_of(f)] = outline_data(extract_outline(input_dir[f]))

\* C6: on a document without pages extract_outline fails, whatever the
\* metadata holds.
C6_ZeroPagesFails ==
  (pc = "done" /\ Len(doc.pages) = 0) => run.status = "error"

\* C7: get_heading_levels returns the three most frequent distinct sizes (any
\* three that no left-out size beats in frequency), largest first, padded
\* with 0 when there are fewer than three distinct sizes.
C7_ThreeMostFrequentSizes ==
  pc = "done" =>
     LET distinct == {font_sizes[i] : i \in 1..Len(font_sizes)}
         chosen   == {levels[k] : k \in 1..3} \ {0}
     IN  /\ Len(levels) = 3
         /\ chosen \subseteq distinct
         /\ Cardinality(chosen) = Min(3, Cardinality(distinct))
         /\ \A a \in chosen : \A b \in distinct \ chosen :
               count_of(font_sizes, a) >= count_of(font_sizes, b)
         /\ \A k \in 1..2 : levels[k] > levels[k + 1] \/ levels[k + 1] = 0
         /\ \A k \in 1..3 : k > Cardinality(chosen) => levels[k] = 0

\* C8: the outline is, in order, one entry for each collected line that
\* passes the repetition and validity filters and matches a threshold: H1 iff
\* its size is h1Size and it is bold or free of CJK characters, otherwise H2
\* iff its size is h2Size, otherwise H3 iff its size is h3Size, otherwise no
\* entry; no entry comes from a line of size 0.
C8_FirstMatchLevels ==
  (pc = "done" /\ run.status = "ok") =>
     LET h1Size == run.levels[1]
         h2Size == run.levels[2]
         h3Size == run.levels[3]
         passes(i) == /\ run.lines[i].text \notin run.repeated
                      /\ is_valid_heading(run.lines[i].text)
         isH1(i) == run.lines[i].size = h1Size
                    /\ (run.lines[i].bold \/ ~has_cjk(run.lines[i].text))
         isH2(i) == ~isH1(i) /\ run.lines[i].size = h2Size
         isH3(i) == ~isH1(i) /\ ~isH2(i) /\ run.lines[i].size = h3Size
         kept    == {i \in 1..Len(run.lines) : passes(i) /\ (isH1(i) \/ isH2(i) \/ isH3(i))}
         rank(i) == Cardinality({j \in kept : j <= i})
     IN  /\ Len(run.outline) = Cardinality(kept)
         /\ \A i \in kept :
               /\ run.outline[rank(i)].text = run.lines[i].text
               /\ run.outline[rank(i)].page = run.lines[i].page
               /\ run.outline[rank(i)].level = "H1" <=> isH1(i)
               /\ run.outline[rank(i)].level = "H2" <=> isH2(i)
               /\ run.outline[rank(i)].level = "H3" <=> isH3(i)
               /\ run.lines[i].size # 0

\* an outline of two entries or more beside a line that passes both filters
\* and whose size is none of the three thresholds, in a document whose
\* thresholds are all sizes of lines
C8_Witness ==
  /\ pc = "done"
  /\ run.status = "ok"
  /\ Len(run.outline) >= 2
  /\ run.levels[3] # 0
  /\ \E i \in 1..Len(run.lines) :
        /\ run.lines[i].text \notin run.repeated
        /\ is_valid_heading(run.lines[i].text)
        /\ \A k \in 1..3 : run.lines[i].size # run.levels[k]

\* C9: with at most one processed page the repeated set is empty.
C9_SinglePageNothingRepeated ==
  (pc = "done" /\ run.num_pages <= 1) => run.repeated = {}

\* C10: the repeated set is the set of the texts that lie in a margin zone on
\* more than numPages // 2 distinct pages.
C10_RepeatedOnDistinctPages ==
  pc = "done" =>
     LET marginal(i) == \/ 10 * run.lines[i].y0 < run.page_height
                        \/ 10 * run.lines[i].y1 > 9 * run.page_height
         pages_of(t) == {run.lines[i].page :
                           i \in {j \in 1..Len(run.lines) :
                                    run.lines[j].text = t /\ marginal(j)}}
     IN  run.repeated =
           {t \in {run.lines[i].text : i \in 1..Len(run.lines)} :
              Cardinality(pages_of(t)) > run.num_pages \div 2}

====
